---- MODULE Spec2Model ----
(***************************************************************************)
(* The STT API settings controller: the useSttApiState hook and the        *)
(* enable toggle of SttApiSettingsComponent.                               *)
(*                                                                         *)
(* The settings store holds the "stt_api" snapshot; the hook mirrors the   *)
(* active provider's base URL, API key and model in component state and    *)
(* persists every edit through one remote command per field.  A handler    *)
(* runs up to its await in one step (the invocation) and from the await to *)
(* its end in a second step (the resolution); between the two it keeps the *)
(* values its closure captured when it was invoked.                        *)
(***************************************************************************)
EXTENDS Naturals, Sequences, FiniteSets, TLC

(***************************************************************************)
(* Bound: the number of remote commands issued in one behaviour (one more  *)
(* in the behaviours of LongSpec).                                         *)
(***************************************************************************)
MaxCalls == 2

(***************************************************************************)
(* Values.  A snapshot is a record; a JavaScript object that lacks a       *)
(* property is a record that lacks the field, and `undefined` itself is    *)
(* the record with no field at all.                                        *)
(***************************************************************************)
Undefined == [k \in {} |-> TRUE]

\* the value of `sttApiSettings?.provider_id` when it is undefined
NoProviderId == "<undefined>"

EmptyMap == [k \in {} |-> ""]

Has(obj, key) == key \in DOMAIN obj

\* a snapshot as the store loads it: every property present
IsLoaded(s) ==
    /\ Has(s, "enabled") /\ Has(s, "provider_id") /\ Has(s, "providers")
    /\ Has(s, "api_keys") /\ Has(s, "models")

\* { ...obj, ...patch }
Spread(obj, patch) == patch @@ obj

\* obj.key as an object to spread: `...undefined` adds nothing
MapOf(obj, key) == IF Has(obj, key) THEN obj[key] ELSE EmptyMap

\* Array.prototype.find, as the position of the first match (0: none)
FindIndex(ps, id) ==
    IF \E i \in 1..Len(ps) : ps[i].id = id
    THEN CHOOSE i \in 1..Len(ps) :
            /\ ps[i].id = id
            /\ \A j \in 1..(i - 1) : ps[j].id # id
    ELSE 0

(***************************************************************************)
(* The snapshots the store may load.  The shipped catalogue is OpenAI      *)
(* (fixed base URL) and Custom (editable base URL); allow_base_url_edit is *)
(* a field of every provider, so a catalogue may also open the base URL of *)
(* a provider other than "custom".                                         *)
(***************************************************************************)
OpenAi(allow) ==
    [id |-> "openai", label |-> "OpenAI",
     base_url |-> "https://api.openai.com/v1", allow_base_url_edit |-> allow]

Custom ==
    [id |-> "custom", label |-> "Custom",
     base_url |-> "http://localhost:8000/v1", allow_base_url_edit |-> TRUE]

InitialSnapshots ==
    { [enabled |-> FALSE, provider_id |-> "openai",
       providers |-> <<OpenAi(FALSE), Custom>>,
       api_keys |-> EmptyMap, models |-> EmptyMap],
      [enabled |-> TRUE, provider_id |-> "custom",
       providers |-> <<OpenAi(TRUE), Custom>>,
       api_keys |-> [custom |-> "sk-stored"], models |-> [openai |-> "whisper-large"]] }

\* what the presentation layer may pass to the handlers
ProviderIdInputs == {"", "openai", "custom", "ghost"}
BaseUrlInputs == {"http://localhost:9000/v1"}
ApiKeyInputs == {"sk-new"}
ModelInputs == {"gpt-x", "parakeet"}

VARIABLES
    sttApiSettings,       \* getSetting("stt_api"): the store's snapshot
    settingsLoaded,       \* the store has done its initial load
    selectedProviderId,   \* useState, line 14
    baseUrl,              \* useState, line 15
    apiKey,               \* useState, line 16
    model,                \* useState, line 17
    isBaseUrlUpdating,    \* useState, line 20
    isApiKeyUpdating,     \* useState, line 21
    isModelUpdating,      \* useState, line 22
    mounted,              \* the component is rendered
    inflight,             \* the remote commands awaiting their result
    issued,               \* how many remote commands were issued
    budget,               \* how many more this behaviour may issue
    persisted,            \* what the remote service holds: the settings it
                          \* handed to the store, and per item the command
                          \* that succeeded last since
    seen,                 \* history: per command in flight, the commands that
                          \* succeeded while it was in flight
    lastOp                \* history: the step taken last

localVars == <<selectedProviderId, baseUrl, apiKey, model>>
busyVars == <<isBaseUrlUpdating, isApiKeyUpdating, isModelUpdating>>
vars == <<sttApiSettings, settingsLoaded, selectedProviderId, baseUrl, apiKey, model,
          isBaseUrlUpdating, isApiKeyUpdating, isModelUpdating, mounted,
          inflight, issued, budget, persisted, seen, lastOp>>

(***************************************************************************)
(* What a render derives from the store and the component state.           *)
(***************************************************************************)
ProviderIdOf(s) == IF Has(s, "provider_id") THEN s.provider_id ELSE NoProviderId

ProvidersOf(s) == IF Has(s, "providers") THEN s.providers ELSE <<>>

ApiKeyFor(s, id) == IF id \in DOMAIN s.api_keys THEN s.api_keys[id] ELSE ""

\* mutant of ModelFor: no fallback model
ModelForNoFallback(s, id) == IF id \in DOMAIN s.models THEN s.models[id] ELSE ""

ModelFor(s, id) == IF id \in DOMAIN s.models THEN s.models[id] ELSE "whisper-1"

isCustomProvider ==
    LET ps == ProvidersOf(sttApiSettings)
        i == FindIndex(ps, selectedProviderId)
    IN  i # 0 /\ ps[i].id = "custom"

Local ==
    [selectedProviderId |-> selectedProviderId, baseUrl |-> baseUrl,
     apiKey |-> apiKey, model |-> model]

(***************************************************************************)
(* The effect that initializes the form from the settings.  It reads       *)
(* providers, api_keys and models of the snapshot without a guard: on a    *)
(* snapshot that lacks them it throws.                                     *)
(***************************************************************************)
InitializeEffect(s, loc) ==
    IF s = Undefined
    THEN [threw |-> FALSE, local |-> loc]
    ELSE IF ~Has(s, "providers") \/ ~Has(s, "api_keys") \/ ~Has(s, "models")
    THEN [threw |-> TRUE, local |-> loc]
    ELSE LET id == ProviderIdOf(s)
             i == FindIndex(s.providers, id)
         IN  [threw |-> FALSE,
              local |-> [selectedProviderId |-> id,
                         baseUrl |-> IF i # 0 THEN s.providers[i].base_url
                                     ELSE loc.baseUrl,
                         apiKey |-> ApiKeyFor(s, id),
                         model |-> ModelFor(s, id)]]

\* mutant of Commit: the effect depends on the whole snapshot, not on its
\* provider_id
CommitAlwaysInitialize(s, loc) ==
    /\ sttApiSettings' = s
    /\ IF ~mounted
       THEN /\ mounted' = FALSE
            /\ UNCHANGED localVars
       ELSE LET e == InitializeEffect(s, loc)
            IN  /\ mounted' = ~e.threw
                /\ selectedProviderId' = e.local.selectedProviderId
                /\ baseUrl' = e.local.baseUrl
                /\ apiKey' = e.local.apiKey
                /\ model' = e.local.model

(***************************************************************************)
(* The store takes the snapshot s and the component the state loc, then    *)
(* the component renders: the effect runs when the snapshot's provider_id  *)
(* is not the one of the previous render, and an effect that throws        *)
(* unmounts the component.  State set on an unmounted component is lost.   *)
(***************************************************************************)
Commit(s, loc) ==
    /\ sttApiSettings' = s
    /\ IF ~mounted
       THEN /\ mounted' = FALSE
            /\ UNCHANGED localVars
       ELSE LET e == IF ProviderIdOf(s) = ProviderIdOf(sttApiSettings)
                     THEN [threw |-> FALSE, local |-> loc]
                     ELSE InitializeEffect(s, loc)
            IN  /\ mounted' = ~e.threw
                /\ selectedProviderId' = e.local.selectedProviderId
                /\ baseUrl' = e.local.baseUrl
                /\ apiKey' = e.local.apiKey
                /\ model' = e.local.model

InitWith(calls) ==
    /\ sttApiSettings = Undefined
    /\ settingsLoaded = FALSE
    /\ selectedProviderId = ""
    /\ baseUrl = ""
    /\ apiKey = ""
    /\ model = ""
    /\ isBaseUrlUpdating = FALSE
    /\ isApiKeyUpdating = FALSE
    /\ isModelUpdating = FALSE
    /\ mounted = TRUE
    /\ inflight = {}
    /\ issued = 0
    /\ budget = calls
    /\ persisted = [loaded |-> Undefined, calls |-> {}]
    /\ seen = EmptyMap
    /\ lastOp = [op |-> "mount"]

Init == InitWith(MaxCalls)

\* the same first render, with room for one more remote command
LongInit == InitWith(MaxCalls + 1)

\* the settings store's initial load
LoadSettings(s) ==
    /\ ~settingsLoaded
    /\ settingsLoaded' = TRUE
    /\ Commit(s, Local)
    /\ lastOp' = [op |-> "load"]
    /\ persisted' = [loaded |-> s, calls |-> {}]
    /\ UNCHANGED <<busyVars, inflight, issued, budget, seen>>

(***************************************************************************)
(* Invocations: a handler up to its await.                                 *)
(***************************************************************************)
Issue(call) ==
    /\ budget > 0
    /\ budget' = budget - 1
    /\ issued' = issued + 1
    /\ inflight' = inflight \cup {call}
    /\ seen' = (call.id :> {}) @@ seen
    /\ UNCHANGED persisted

Returned(handler, arg) ==
    /\ lastOp' = [op |-> "invoke", handler |-> handler, arg |-> arg, call |-> 0]
    /\ UNCHANGED <<sttApiSettings, settingsLoaded, localVars, busyVars, mounted,
                   inflight, issued, budget, persisted, seen>>

\* mutant of handleProviderSelect: the guard does not test the snapshot
handleProviderSelectUnguarded(providerId) ==
    /\ mounted
    /\ IF providerId = ""
       THEN Returned("handleProviderSelect", providerId)
       ELSE /\ Issue([id |-> issued + 1, cmd |-> "setSttApiProvider",
                      providerId |-> providerId,
                      sttApiSettings |-> sttApiSettings])
            /\ lastOp' = [op |-> "invoke", handler |-> "handleProviderSelect",
                          arg |-> providerId, call |-> issued + 1]
            /\ UNCHANGED <<sttApiSettings, settingsLoaded, localVars, busyVars,
                           mounted>>

handleProviderSelect(providerId) ==
    /\ mounted
    /\ IF providerId = "" \/ sttApiSettings = Undefined
       THEN Returned("handleProviderSelect", providerId)
       ELSE /\ Issue([id |-> issued + 1, cmd |-> "setSttApiProvider",
                      providerId |-> providerId,
                      sttApiSettings |-> sttApiSettings])
            /\ lastOp' = [op |-> "invoke", handler |-> "handleProviderSelect",
                          arg |-> providerId, call |-> issued + 1]
            /\ UNCHANGED <<sttApiSettings, settingsLoaded, localVars, busyVars,
                           mounted>>

handleBaseUrlChange(newBaseUrl) ==
    /\ mounted
    /\ IF ~isCustomProvider \/ selectedProviderId = ""
       THEN Returned("handleBaseUrlChange", newBaseUrl)
       ELSE /\ isBaseUrlUpdating' = TRUE
            /\ baseUrl' = newBaseUrl
            /\ Issue([id |-> issued + 1, cmd |-> "setSttApiBaseUrl",
                      providerId |-> selectedProviderId, value |-> newBaseUrl,
                      sttApiSettings |-> sttApiSettings])
            /\ lastOp' = [op |-> "invoke", handler |-> "handleBaseUrlChange",
                          arg |-> newBaseUrl, call |-> issued + 1]
            /\ UNCHANGED <<sttApiSettings, settingsLoaded, selectedProviderId,
                           apiKey, model, isApiKeyUpdating, isModelUpdating,
                           mounted>>

\* mutant of handleApiKeyChange: the value reaches the form only with the result
handleApiKeyChangeNotOptimistic(newApiKey) ==
    /\ mounted
    /\ IF selectedProviderId = ""
       THEN Returned("handleApiKeyChange", newApiKey)
       ELSE /\ isApiKeyUpdating' = TRUE
            /\ apiKey' = apiKey
            /\ Issue([id |-> issued + 1, cmd |-> "setSttApiKey",
                      providerId |-> selectedProviderId, value |-> newApiKey,
                      sttApiSettings |-> sttApiSettings])
            /\ lastOp' = [op |-> "invoke", handler |-> "handleApiKeyChange",
                          arg |-> newApiKey, call |-> issued + 1]
            /\ UNCHANGED <<sttApiSettings, settingsLoaded, selectedProviderId,
                           baseUrl, model, isBaseUrlUpdating, isModelUpdating,
                           mounted>>

handleApiKeyChange(newApiKey) ==
    /\ mounted
    /\ IF selectedProviderId = ""
       THEN Returned("handleApiKeyChange", newApiKey)
       ELSE /\ isApiKeyUpdating' = TRUE
            /\ apiKey' = newApiKey
            /\ Issue([id |-> issued + 1, cmd |-> "setSttApiKey",
                      providerId |-> selectedProviderId, value |-> newApiKey,
                      sttApiSettings |-> sttApiSettings])
            /\ lastOp' = [op |-> "invoke", handler |-> "handleApiKeyChange",
                          arg |-> newApiKey, call |-> issued + 1]
            /\ UNCHANGED <<sttApiSettings, settingsLoaded, selectedProviderId,
                           baseUrl, model, isBaseUrlUpdating, isModelUpdating,
                           mounted>>

\* mutant of handleModelChange: an edit to the value the form already shows is
\* not sent again
handleModelChangeDeduplicated(newModel) ==
    /\ mounted
    /\ IF selectedProviderId = "" \/ newModel = model
       THEN Returned("handleModelChange", newModel)
       ELSE /\ isModelUpdating' = TRUE
            /\ model' = newModel
            /\ Issue([id |-> issued + 1, cmd |-> "setSttApiModel",
                      providerId |-> selectedProviderId, value |-> newModel,
                      sttApiSettings |-> sttApiSettings])
            /\ lastOp' = [op |-> "invoke", handler |-> "handleModelChange",
                          arg |-> newModel, call |-> issued + 1]
            /\ UNCHANGED <<sttApiSettings, settingsLoaded, selectedProviderId,
                           baseUrl, apiKey, isBaseUrlUpdating, isApiKeyUpdating,
                           mounted>>

handleModelChange(newModel) ==
    /\ mounted
    /\ IF selectedProviderId = ""
       THEN Returned("handleModelChange", newModel)
       ELSE /\ isModelUpdating' = TRUE
            /\ model' = newModel
            /\ Issue([id |-> issued + 1, cmd |-> "setSttApiModel",
                      providerId |-> selectedProviderId, value |-> newModel,
                      sttApiSettings |-> sttApiSettings])
            /\ lastOp' = [op |-> "invoke", handler |-> "handleModelChange",
                          arg |-> newModel, call |-> issued + 1]
            /\ UNCHANGED <<sttApiSettings, settingsLoaded, selectedProviderId,
                           baseUrl, apiKey, isBaseUrlUpdating, isApiKeyUpdating,
                           mounted>>

handleToggleEnabled(enabled) ==
    /\ mounted
    /\ Issue([id |-> issued + 1, cmd |-> "setSttApiEnabled", enabled |-> enabled,
              sttApiSettings |-> sttApiSettings])
    /\ lastOp' = [op |-> "invoke", handler |-> "handleToggleEnabled",
                  enabled |-> enabled, call |-> issued + 1]
    /\ UNCHANGED <<sttApiSettings, settingsLoaded, localVars, busyVars, mounted>>

(***************************************************************************)
(* Resolutions: a handler from its await to its end.  ok is the remote     *)
(* command's result.                                                       *)
(***************************************************************************)
Summary(call) == [k \in DOMAIN call \ {"id", "sttApiSettings"} |-> call[k]]

\* the item a command writes: a field of one provider, the active provider,
\* or the enabled flag
Item(q) ==
    IF q.cmd \in {"setSttApiBaseUrl", "setSttApiKey", "setSttApiModel"}
    THEN [cmd |-> q.cmd, providerId |-> q.providerId]
    ELSE [cmd |-> q.cmd]

\* the remote service after command call has succeeded
Persist(call) ==
    [persisted EXCEPT
        !.calls = {q \in persisted.calls : Item(q) # Item(call)} \cup {Summary(call)}]

\* the bookkeeping of every resolution; a handler catches what its command throws
Settled(call, ok) ==
    /\ call \in inflight
    /\ inflight' = inflight \ {call}
    /\ seen' = [i \in DOMAIN seen \ {call.id} |->
                   IF ok THEN seen[i] \cup {Summary(call)} ELSE seen[i]]
    /\ lastOp' = [op |-> "resolve", call |-> call, ok |-> ok,
                  seen |-> seen[call.id], outcome |-> "fulfilled"]
    /\ persisted' = IF ok THEN Persist(call) ELSE persisted
    /\ UNCHANGED <<settingsLoaded, issued, budget>>

\* mutant of ProviderSelectResolved: the selection is applied whatever the result
ProviderSelectResolvedOptimistic(call, ok) ==
    /\ call.cmd = "setSttApiProvider"
    /\ Settled(call, ok)
    /\ UNCHANGED busyVars
    /\ IF ok
       THEN LET s == call.sttApiSettings
                ps == ProvidersOf(s)
                i == FindIndex(ps, call.providerId)
            IN  Commit(Spread(s, [provider_id |-> call.providerId]),
                       IF i # 0
                       THEN [selectedProviderId |-> call.providerId,
                             baseUrl |-> ps[i].base_url,
                             apiKey |-> ApiKeyFor(s, call.providerId),
                             model |-> ModelFor(s, call.providerId)]
                       ELSE [Local EXCEPT !.selectedProviderId = call.providerId])
       ELSE /\ selectedProviderId' = IF mounted THEN call.providerId
                                     ELSE selectedProviderId
            /\ UNCHANGED <<sttApiSettings, baseUrl, apiKey, model, mounted>>

ProviderSelectResolved(call, ok) ==
    /\ call.cmd = "setSttApiProvider"
    /\ Settled(call, ok)
    /\ UNCHANGED busyVars
    /\ IF ok
       THEN LET s == call.sttApiSettings
                ps == ProvidersOf(s)
                i == FindIndex(ps, call.providerId)
            IN  Commit(Spread(s, [provider_id |-> call.providerId]),
                       IF i # 0
                       THEN [selectedProviderId |-> call.providerId,
                             baseUrl |-> ps[i].base_url,
                             apiKey |-> ApiKeyFor(s, call.providerId),
                             model |-> ModelFor(s, call.providerId)]
                       ELSE [Local EXCEPT !.selectedProviderId = call.providerId])
       ELSE UNCHANGED <<sttApiSettings, localVars, mounted>>

\* mutant of UpdatedProviders: the map forgets to test the id
UpdatedProvidersEveryEntry(ps, id, newBaseUrl) ==
    [i \in 1..Len(ps) |-> [ps[i] EXCEPT !.base_url = newBaseUrl]]

UpdatedProviders(ps, id, newBaseUrl) ==
    [i \in 1..Len(ps) |->
        IF ps[i].id = id THEN [ps[i] EXCEPT !.base_url = newBaseUrl] ELSE ps[i]]

\* mutant of BaseUrlResolved: the snapshot is updated whatever the result
BaseUrlResolvedUnchecked(call, ok) ==
    /\ call.cmd = "setSttApiBaseUrl"
    /\ Settled(call, ok)
    /\ isBaseUrlUpdating' = IF mounted THEN FALSE ELSE isBaseUrlUpdating
    /\ UNCHANGED <<isApiKeyUpdating, isModelUpdating>>
    /\ LET s == call.sttApiSettings
       IN  IF s # Undefined /\ Has(s, "providers")
           THEN Commit(Spread(s, [providers |->
                           UpdatedProviders(s.providers, call.providerId, call.value)]),
                       Local)
           ELSE UNCHANGED <<sttApiSettings, localVars, mounted>>

BaseUrlResolved(call, ok) ==
    /\ call.cmd = "setSttApiBaseUrl"
    /\ Settled(call, ok)
    /\ isBaseUrlUpdating' = IF mounted THEN FALSE ELSE isBaseUrlUpdating
    /\ UNCHANGED <<isApiKeyUpdating, isModelUpdating>>
    /\ LET s == call.sttApiSettings
       IN  IF ok /\ s # Undefined /\ Has(s, "providers")
           THEN Commit(Spread(s, [providers |->
                           UpdatedProviders(s.providers, call.providerId, call.value)]),
                       Local)
           ELSE UNCHANGED <<sttApiSettings, localVars, mounted>>

\* mutant of ApiKeyResolved: the busy flag is cleared in the try block, not in
\* a finally
ApiKeyResolvedNoFinally(call, ok) ==
    /\ call.cmd = "setSttApiKey"
    /\ Settled(call, ok)
    /\ isApiKeyUpdating' = IF mounted /\ ok THEN FALSE ELSE isApiKeyUpdating
    /\ UNCHANGED <<isBaseUrlUpdating, isModelUpdating>>
    /\ LET s == call.sttApiSettings
       IN  IF ok /\ s # Undefined
           THEN Commit(Spread(s, [api_keys |->
                           (call.providerId :> call.value) @@ MapOf(s, "api_keys")]),
                       Local)
           ELSE UNCHANGED <<sttApiSettings, localVars, mounted>>

ApiKeyResolved(call, ok) ==
    /\ call.cmd = "setSttApiKey"
    /\ Settled(call, ok)
    /\ isApiKeyUpdating' = IF mounted THEN FALSE ELSE isApiKeyUpdating
    /\ UNCHANGED <<isBaseUrlUpdating, isModelUpdating>>
    /\ LET s == call.sttApiSettings
       IN  IF ok /\ s # Undefined
           THEN Commit(Spread(s, [api_keys |->
                           (call.providerId :> call.value) @@ MapOf(s, "api_keys")]),
                       Local)
           ELSE UNCHANGED <<sttApiSettings, localVars, mounted>>

\* mutant of ModelResolved: a failure restores the stored model
ModelResolvedWithRollback(call, ok) ==
    /\ call.cmd = "setSttApiModel"
    /\ Settled(call, ok)
    /\ isModelUpdating' = IF mounted THEN FALSE ELSE isModelUpdating
    /\ UNCHANGED <<isBaseUrlUpdating, isApiKeyUpdating>>
    /\ LET s == call.sttApiSettings
       IN  IF ok /\ s # Undefined
           THEN Commit(Spread(s, [models |->
                           (call.providerId :> call.value) @@ MapOf(s, "models")]),
                       Local)
           ELSE /\ model' = IF mounted /\ IsLoaded(s)
                            THEN ModelFor(s, call.providerId) ELSE model
                /\ UNCHANGED <<sttApiSettings, selectedProviderId, baseUrl, apiKey,
                               mounted>>

\* mutant of ModelResolved: a result that is not the newest command's is dropped
ModelResolvedNewestWins(call, ok) ==
    /\ call.cmd = "setSttApiModel"
    /\ Settled(call, ok)
    /\ isModelUpdating' = IF mounted THEN FALSE ELSE isModelUpdating
    /\ UNCHANGED <<isBaseUrlUpdating, isApiKeyUpdating>>
    /\ LET s == call.sttApiSettings
       IN  IF ok /\ s # Undefined /\ call.id = issued
           THEN Commit(Spread(s, [models |->
                           (call.providerId :> call.value) @@ MapOf(s, "models")]),
                       Local)
           ELSE UNCHANGED <<sttApiSettings, localVars, mounted>>

ModelResolved(call, ok) ==
    /\ call.cmd = "setSttApiModel"
    /\ Settled(call, ok)
    /\ isModelUpdating' = IF mounted THEN FALSE ELSE isModelUpdating
    /\ UNCHANGED <<isBaseUrlUpdating, isApiKeyUpdating>>
    /\ LET s == call.sttApiSettings
       IN  IF ok /\ s # Undefined
           THEN Commit(Spread(s, [models |->
                           (call.providerId :> call.value) @@ MapOf(s, "models")]),
                       Local)
           ELSE UNCHANGED <<sttApiSettings, localVars, mounted>>

ToggleEnabledResolved(call, ok) ==
    /\ call.cmd = "setSttApiEnabled"
    /\ Settled(call, ok)
    /\ UNCHANGED busyVars
    /\ IF ok
       THEN Commit(Spread(call.sttApiSettings, [enabled |-> call.enabled]), Local)
       ELSE UNCHANGED <<sttApiSettings, localVars, mounted>>

Next ==
    \/ \E s \in InitialSnapshots : LoadSettings(s)
    \/ \E providerId \in ProviderIdInputs : handleProviderSelect(providerId)
    \/ \E newBaseUrl \in BaseUrlInputs : handleBaseUrlChange(newBaseUrl)
    \/ \E newApiKey \in ApiKeyInputs : handleApiKeyChange(newApiKey)
    \/ \E newModel \in ModelInputs : handleModelChange(newModel)
    \/ \E enabled \in BOOLEAN : handleToggleEnabled(enabled)
    \/ \E call \in inflight, ok \in BOOLEAN : ProviderSelectResolved(call, ok)
    \/ \E call \in inflight, ok \in BOOLEAN : BaseUrlResolved(call, ok)
    \/ \E call \in inflight, ok \in BOOLEAN : ApiKeyResolved(call, ok)
    \/ \E call \in inflight, ok \in BOOLEAN : ModelResolved(call, ok)
    \/ \E call \in inflight, ok \in BOOLEAN : ToggleEnabledResolved(call, ok)

Spec == Init /\ [][Next]_vars

(***************************************************************************)
(* Fairness: a remote command that was issued gets its result, success or  *)
(* failure.  Nothing obliges the user to invoke a handler.                 *)
(***************************************************************************)
Resolve ==
    \E call \in inflight, ok \in BOOLEAN :
        \/ ProviderSelectResolved(call, ok)
        \/ BaseUrlResolved(call, ok)
        \/ ApiKeyResolved(call, ok)
        \/ ModelResolved(call, ok)
        \/ ToggleEnabledResolved(call, ok)

FairSpec == Init /\ [][Next]_vars /\ WF_vars(Resolve)

\* the behaviours with one more remote command than MaxCalls
LongSpec == LongInit /\ [][Next]_vars

\* the behaviours in which every remote command succeeds
NextAllSucceed ==
    \/ \E s \in InitialSnapshots : LoadSettings(s)
    \/ \E providerId \in ProviderIdInputs : handleProviderSelect(providerId)
    \/ \E newBaseUrl \in BaseUrlInputs : handleBaseUrlChange(newBaseUrl)
    \/ \E newApiKey \in ApiKeyInputs : handleApiKeyChange(newApiKey)
    \/ \E newModel \in ModelInputs : handleModelChange(newModel)
    \/ \E enabled \in BOOLEAN : handleToggleEnabled(enabled)
    \/ \E call \in inflight : ProviderSelectResolved(call, TRUE)
    \/ \E call \in inflight : BaseUrlResolved(call, TRUE)
    \/ \E call \in inflight : ApiKeyResolved(call, TRUE)
    \/ \E call \in inflight : ModelResolved(call, TRUE)
    \/ \E call \in inflight : ToggleEnabledResolved(call, TRUE)

SuccessSpec == Init /\ [][NextAllSucceed]_vars

(***************************************************************************)
(* Vocabulary of the properties.                                           *)
(***************************************************************************)
FieldCmds == {"setSttApiBaseUrl", "setSttApiKey", "setSttApiModel"}

FieldHandlers == {"handleBaseUrlChange", "handleApiKeyChange", "handleModelChange"}

AllCmds == FieldCmds \cup {"setSttApiProvider", "setSttApiEnabled"}

\* the selected provider's allow_base_url_edit (FALSE: no provider selected)
SelectedAllowsBaseUrlEdit ==
    LET ps == ProvidersOf(sttApiSettings)
        i == FindIndex(ps, selectedProviderId)
    IN  i # 0 /\ ps[i].allow_base_url_edit

InFlight(cmd) == \E call \in inflight : call.cmd = cmd

ProviderIds(s) == {ProvidersOf(s)[i].id : i \in 1..Len(ProvidersOf(s))}

\* what snapshot s stores for provider id in the item that cmd writes
\* ("<absent>": nothing)
Stored(s, cmd, id) ==
    CASE cmd = "setSttApiBaseUrl" ->
            IF id \in ProviderIds(s)
            THEN ProvidersOf(s)[FindIndex(ProvidersOf(s), id)].base_url
            ELSE "<absent>"
      [] cmd = "setSttApiKey" ->
            IF id \in DOMAIN MapOf(s, "api_keys") THEN s.api_keys[id] ELSE "<absent>"
      [] cmd = "setSttApiModel" ->
            IF id \in DOMAIN MapOf(s, "models") THEN s.models[id] ELSE "<absent>"

\* the step just taken resolved a remote command
Resolved(cmds, ok) ==
    /\ lastOp.op = "resolve"
    /\ lastOp.call.cmd \in cmds
    /\ lastOp.ok = ok

\* this step resolves a remote command
Resolves(cmds, ok) ==
    /\ lastOp' # lastOp
    /\ lastOp'.op = "resolve"
    /\ lastOp'.call.cmd \in cmds
    /\ lastOp'.ok = ok

\* this step is an invocation of one of the handlers
Invokes(handlers) ==
    /\ lastOp' # lastOp
    /\ lastOp'.op = "invoke"
    /\ lastOp'.handler \in handlers

(***************************************************************************)
(* C1.  Busy-flag invariant: while the component is mounted, each field's  *)
(* busy flag is true exactly when a remote command of that field's handler *)
(* is unresolved.                                                          *)
(***************************************************************************)
C1_BusyIffInFlight ==
    mounted =>
        /\ isBaseUrlUpdating <=> InFlight("setSttApiBaseUrl")
        /\ isApiKeyUpdating <=> InFlight("setSttApiKey")
        /\ isModelUpdating <=> InFlight("setSttApiModel")

(***************************************************************************)
(* C2.  Edits of different fields of one provider that were in flight      *)
(* together and both succeeded are both in the snapshot once the second    *)
(* has resolved: when a field command resolves successfully and exactly    *)
(* one command of another field, for the same provider, succeeded while it *)
(* was in flight, the snapshot holds the values of both.                   *)
(***************************************************************************)
C2_ConcurrentEditsBothKept ==
    Resolved(FieldCmds, TRUE) =>
        \A q \in lastOp.seen :
            ( /\ q.cmd \in FieldCmds \ {lastOp.call.cmd}
              /\ q.providerId = lastOp.call.providerId
              /\ \A r \in lastOp.seen : r.cmd = q.cmd => r = q )
            => /\ Stored(sttApiSettings, q.cmd, q.providerId) = q.value
               /\ Stored(sttApiSettings, lastOp.call.cmd, q.providerId)
                      = lastOp.call.value

(***************************************************************************)
(* C3.  handleBaseUrlChange returns without an effect exactly when the     *)
(* selected provider does not allow its base URL to be edited (or no       *)
(* provider is selected): then no command is issued and baseUrl, its busy  *)
(* flag and the snapshot stay; otherwise a command is issued.              *)
(***************************************************************************)
C3_BaseUrlGuardIsAllowEdit ==
    [][ Invokes({"handleBaseUrlChange"}) =>
            IF SelectedAllowsBaseUrlEdit
            THEN inflight' # inflight
            ELSE /\ inflight' = inflight
                 /\ UNCHANGED <<baseUrl, isBaseUrlUpdating, sttApiSettings>> ]_vars

(***************************************************************************)
(* C4.  When the command of handleProviderSelect(P) succeeds, P being a    *)
(* provider of the snapshot the handler was invoked on, then on resolution *)
(* the snapshot's provider_id and selectedProviderId are P, baseUrl is P's *)
(* base_url, apiKey is api_keys[P] or "" and model is models[P] or         *)
(* "whisper-1".                                                            *)
(***************************************************************************)
C4_SelectProviderDerives ==
    ( /\ mounted
      /\ Resolved({"setSttApiProvider"}, TRUE)
      /\ lastOp.call.providerId \in ProviderIds(lastOp.call.sttApiSettings) )
    => LET P == lastOp.call.providerId
           s == sttApiSettings
       IN  /\ IsLoaded(s)
           /\ s.provider_id = P
           /\ selectedProviderId = P
           /\ \E i \in 1..Len(s.providers) :
                 s.providers[i].id = P /\ baseUrl = s.providers[i].base_url
           /\ apiKey = IF P \in DOMAIN s.api_keys THEN s.api_keys[P] ELSE ""
           /\ model = IF P \in DOMAIN s.models THEN s.models[P] ELSE "whisper-1"

C4_Witness ==
    /\ mounted
    /\ Resolved({"setSttApiProvider"}, TRUE)
    /\ lastOp.call.providerId = "custom"
    /\ lastOp.call.sttApiSettings.provider_id = "openai"
    /\ selectedProviderId = "custom"
    /\ baseUrl = "http://localhost:8000/v1"
    /\ apiKey = ""
    /\ model = "whisper-1"

(***************************************************************************)
(* C5.  Optimistic update: with a provider selected (and, for the base     *)
(* URL, the edit let through by the handler's guard), the invocation of    *)
(* handleApiKeyChange(v), handleModelChange(v) or handleBaseUrlChange(v)   *)
(* issues a command and leaves, with that command unresolved, the local    *)
(* field equal to v and the snapshot as it was.                            *)
(***************************************************************************)
C5_OptimisticUpdate ==
    [][ ( /\ Invokes(FieldHandlers)
          /\ selectedProviderId # ""
          /\ lastOp'.handler = "handleBaseUrlChange" => isCustomProvider )
        => /\ \E call \in inflight' \ inflight :
                 call.id = lastOp'.call /\ call.value = lastOp'.arg
           /\ sttApiSettings' = sttApiSettings
           /\ lastOp'.handler = "handleApiKeyChange" => apiKey' = lastOp'.arg
           /\ lastOp'.handler = "handleModelChange" => model' = lastOp'.arg
           /\ lastOp'.handler = "handleBaseUrlChange" => baseUrl' = lastOp'.arg
      ]_vars

C5_Witness ==
    /\ lastOp.op = "invoke"
    /\ lastOp.handler = "handleApiKeyChange"
    /\ lastOp.call # 0
    /\ InFlight("setSttApiKey")
    /\ apiKey = "sk-new"
    /\ Stored(sttApiSettings, "setSttApiKey", selectedProviderId) = "sk-stored"

(***************************************************************************)
(* C6.  No rollback on failure: when the command of a field edit fails,    *)
(* the resolution clears the field's busy flag and leaves the local field  *)
(* as it was; when the edit was the step before, that is the edited value. *)
(***************************************************************************)
C6_NoRollbackOnFailure ==
    [][ (mounted /\ Resolves(FieldCmds, FALSE)) =>
            LET c == lastOp'.call
                justInvoked == lastOp.op = "invoke" /\ lastOp.call = c.id
            IN  /\ c.cmd = "setSttApiModel" =>
                      /\ ~isModelUpdating'
                      /\ model' = model
                      /\ justInvoked => model' = c.value
                /\ c.cmd = "setSttApiKey" =>
                      /\ ~isApiKeyUpdating'
                      /\ apiKey' = apiKey
                      /\ justInvoked => apiKey' = c.value
                /\ c.cmd = "setSttApiBaseUrl" =>
                      /\ ~isBaseUrlUpdating'
                      /\ baseUrl' = baseUrl
                      /\ justInvoked => baseUrl' = c.value
      ]_vars

C6_Witness ==
    /\ mounted
    /\ Resolved({"setSttApiModel"}, FALSE)
    /\ lastOp.call.value = "gpt-x"
    /\ model = "gpt-x"
    /\ ~isModelUpdating
    /\ inflight = {}
    /\ Stored(sttApiSettings, "setSttApiModel", selectedProviderId) # "gpt-x"

(***************************************************************************)
(* C7.  As claimed: after the command of handleProviderSelect(P) failed,   *)
(* selectedProviderId is P and the snapshot's provider_id is what it was.  *)
(***************************************************************************)
C7_FailedSelectKeepsNewSelection ==
    [][ (mounted /\ Resolves({"setSttApiProvider"}, FALSE)) =>
            /\ selectedProviderId' = lastOp'.call.providerId
            /\ ProviderIdOf(sttApiSettings') = ProviderIdOf(sttApiSettings) ]_vars

(***************************************************************************)
(* C7, amended.  A failed handleProviderSelect(P) changes nothing: the     *)
(* resolution leaves selectedProviderId, baseUrl, apiKey, model and the    *)
(* snapshot as they were (the selection is set to P only on success).      *)
(***************************************************************************)
C7_FailedSelectChangesNothing ==
    [][ (mounted /\ Resolves({"setSttApiProvider"}, FALSE)) =>
            UNCHANGED <<selectedProviderId, baseUrl, apiKey, model, sttApiSettings>>
      ]_vars

C7_Witness ==
    /\ mounted
    /\ Resolved({"setSttApiProvider"}, FALSE)
    /\ lastOp.call.providerId = "custom"
    /\ selectedProviderId = "openai"
    /\ ProviderIdOf(sttApiSettings) = "openai"

(***************************************************************************)
(* C8.  A failed remote command of any of the five handlers is caught: the *)
(* handler's promise is fulfilled, the command is no longer in flight and  *)
(* the snapshot is not modified by the resolution.                         *)
(***************************************************************************)
C8_FailureCaughtSnapshotKept ==
    [][ Resolves(AllCmds, FALSE) =>
            /\ lastOp'.outcome = "fulfilled"
            /\ lastOp'.call \notin inflight'
            /\ sttApiSettings' = sttApiSettings ]_vars

C8_Witness ==
    /\ Resolved({"setSttApiBaseUrl"}, FALSE)
    /\ lastOp.outcome = "fulfilled"
    /\ baseUrl = "http://localhost:9000/v1"
    /\ Stored(sttApiSettings, "setSttApiBaseUrl", "custom") = "http://localhost:8000/v1"

(***************************************************************************)
(* C9.  A successful handleBaseUrlChange(u) for provider P replaces only   *)
(* P's base_url in the snapshot's provider list: against the list just     *)
(* before the commit, the list has the same length, ids, labels and        *)
(* allow_base_url_edit flags in the same order, every entry other than P's *)
(* is equal, and P's base_url is u.                                        *)
(***************************************************************************)
C9_BaseUrlPatchesOneEntry ==
    [][ (Resolves({"setSttApiBaseUrl"}, TRUE) /\ Has(sttApiSettings, "providers")) =>
            LET before == sttApiSettings.providers
                after == ProvidersOf(sttApiSettings')
                c == lastOp'.call
            IN  /\ Has(sttApiSettings', "providers")
                /\ Len(after) = Len(before)
                /\ \A i \in 1..Len(before) :
                      /\ after[i].id = before[i].id
                      /\ after[i].label = before[i].label
                      /\ after[i].allow_base_url_edit = before[i].allow_base_url_edit
                      /\ before[i].id # c.providerId => after[i] = before[i]
                      /\ before[i].id = c.providerId => after[i].base_url = c.value
      ]_vars

C9_Witness ==
    /\ Resolved({"setSttApiBaseUrl"}, TRUE)
    /\ IsLoaded(sttApiSettings)
    /\ sttApiSettings.providers[1] = OpenAi(FALSE)
    /\ sttApiSettings.providers[2] = [Custom EXCEPT !.base_url = "http://localhost:9000/v1"]

(***************************************************************************)
(* C10.  A snapshot that holds a provider list holds, as provider_id, the  *)
(* id of a provider of that list.                                          *)
(***************************************************************************)
C10_ActiveProviderInList ==
    IsLoaded(sttApiSettings) => sttApiSettings.provider_id \in ProviderIds(sttApiSettings)

(***************************************************************************)
(* C11.  handleModelChange(m) is idempotent on the form.  Invoked again    *)
(* with the m of an earlier handleModelChange(m) for the provider that is  *)
(* still selected (that earlier command being unresolved, or resolved in   *)
(* the step before), the form still showing m, it issues a second command  *)
(* of its own and leaves selectedProviderId, baseUrl, apiKey and model as  *)
(* they were; and the resolution of a handleModelChange(m) command, on     *)
(* either result, with m shown and its provider still selected, leaves     *)
(* them as they were too.                                                  *)
(***************************************************************************)
C11_SetModelIdempotent ==
    [][ LET same(c, m) == /\ c.cmd = "setSttApiModel"
                          /\ c.value = m
                          /\ c.providerId = selectedProviderId
            first(m) == \/ \E c \in inflight : same(c, m)
                        \/ lastOp.op = "resolve" /\ same(lastOp.call, m)
        IN  /\ ( /\ Invokes({"handleModelChange"})
                 /\ selectedProviderId # ""
                 /\ model = lastOp'.arg
                 /\ first(lastOp'.arg) )
               => /\ issued' = issued + 1
                  /\ issued' >= 2
                  /\ \E c \in inflight' \ inflight :
                        /\ c.id = issued'
                        /\ c.cmd = "setSttApiModel"
                        /\ c.value = lastOp'.arg
                        /\ c.providerId = selectedProviderId
                  /\ Local' = Local
            /\ ( /\ mounted
                 /\ Resolves({"setSttApiModel"}, TRUE) \/ Resolves({"setSttApiModel"}, FALSE)
                 /\ lastOp'.call.value = model
                 /\ lastOp'.call.providerId = selectedProviderId )
               => Local' = Local
      ]_vars

C11_Witness ==
    /\ mounted
    /\ Resolved({"setSttApiModel"}, TRUE)
    /\ lastOp.call.id = 2
    /\ lastOp.call.value = "gpt-x"
    /\ lastOp.seen = {[cmd |-> "setSttApiModel", providerId |-> lastOp.call.providerId,
                       value |-> "gpt-x"]}
    /\ selectedProviderId = lastOp.call.providerId
    /\ model = "gpt-x"
    /\ inflight = {}

(***************************************************************************)
(* C12.  As claimed: a commit to the snapshot that leaves its provider_id  *)
(* as it was leaves baseUrl, apiKey and model as they were.                *)
(***************************************************************************)
C12_CommitKeepsFields ==
    [][ ( /\ mounted
          /\ Resolves(AllCmds, TRUE)
          /\ ProviderIdOf(sttApiSettings') = ProviderIdOf(sttApiSettings) )
        => UNCHANGED <<baseUrl, apiKey, model>> ]_vars

(***************************************************************************)
(* C12, amended.  A commit by handleBaseUrlChange, handleApiKeyChange,     *)
(* handleModelChange or handleToggleEnabled that leaves the snapshot's     *)
(* provider_id as it was leaves baseUrl, apiKey and model as they were     *)
(* (handleProviderSelect sets them itself whenever its command succeeds).  *)
(***************************************************************************)
C12_FieldCommitKeepsFields ==
    [][ ( /\ mounted
          /\ Resolves(AllCmds \ {"setSttApiProvider"}, TRUE)
          /\ ProviderIdOf(sttApiSettings') = ProviderIdOf(sttApiSettings) )
        => UNCHANGED <<baseUrl, apiKey, model>> ]_vars

C12_Witness ==
    /\ mounted
    /\ Resolved({"setSttApiKey"}, TRUE)
    /\ ProviderIdOf(lastOp.call.sttApiSettings) = ProviderIdOf(sttApiSettings)
    /\ Stored(sttApiSettings, "setSttApiKey", selectedProviderId) = "sk-new"
    /\ InFlight("setSttApiModel")
    /\ model = "gpt-x"
    /\ Stored(sttApiSettings, "setSttApiModel", selectedProviderId) # "gpt-x"

(***************************************************************************)
(* C13.  Two edits of one field of one provider in flight together, both   *)
(* successful: when the second of them resolves, the snapshot holds, for   *)
(* that field, the value of the command that resolves now, whichever of    *)
(* the two was issued first.                                               *)
(***************************************************************************)
C13_LastResolvedWins ==
    ( /\ Resolved(FieldCmds, TRUE)
      /\ \E q \in lastOp.seen :
            q.cmd = lastOp.call.cmd /\ q.providerId = lastOp.call.providerId )
    => Stored(sttApiSettings, lastOp.call.cmd, lastOp.call.providerId)
           = lastOp.call.value

C13_Witness ==
    /\ mounted
    /\ Resolved({"setSttApiModel"}, TRUE)
    /\ lastOp.call.id = 1
    /\ lastOp.call.value = "gpt-x"
    /\ lastOp.seen = {[cmd |-> "setSttApiModel", providerId |-> lastOp.call.providerId,
                       value |-> "parakeet"]}
    /\ inflight = {}
    /\ issued = 2
    /\ Stored(sttApiSettings, "setSttApiModel", lastOp.call.providerId) = "gpt-x"
    /\ model = "parakeet"

(***************************************************************************)
(* C14.  When every issued command gets its result, the busy flags of the  *)
(* mounted component end up false for good; and at no time is a busy flag  *)
(* of the mounted component true with no command of its field in flight.   *)
(***************************************************************************)
C14_BusyFlagsClear ==
    /\ [](mounted =>
            /\ isBaseUrlUpdating => InFlight("setSttApiBaseUrl")
            /\ isApiKeyUpdating => InFlight("setSttApiKey")
            /\ isModelUpdating => InFlight("setSttApiModel"))
    /\ <>[](mounted =>
            /\ inflight = {}
            /\ ~isBaseUrlUpdating /\ ~isApiKeyUpdating /\ ~isModelUpdating)

C14_Witness ==
    /\ mounted
    /\ Resolved({"setSttApiKey"}, FALSE)
    /\ lastOp.seen = {[cmd |-> "setSttApiBaseUrl", providerId |-> "custom",
                       value |-> "http://localhost:9000/v1"]}
    /\ issued = MaxCalls
    /\ inflight = {}
    /\ ~isBaseUrlUpdating /\ ~isApiKeyUpdating /\ ~isModelUpdating

(***************************************************************************)
(* C15.  handleToggleEnabled(v) patches one field and keeps no optimistic  *)
(* value: its invocation and the failure of its command leave the snapshot *)
(* as it was; the success of its command sets the snapshot's enabled to v  *)
(* and leaves provider_id, providers, api_keys and models as they were in  *)
(* the snapshot just before that commit, whatever was committed while the  *)
(* command was in flight (the handler invoked on a loaded snapshot).       *)
(***************************************************************************)
C15_TogglePatchesEnabledOnly ==
    [][ /\ Invokes({"handleToggleEnabled"}) => sttApiSettings' = sttApiSettings
        /\ Resolves({"setSttApiEnabled"}, FALSE) => sttApiSettings' = sttApiSettings
        /\ ( /\ Resolves({"setSttApiEnabled"}, TRUE)
              /\ IsLoaded(lastOp'.call.sttApiSettings)
              /\ IsLoaded(sttApiSettings) ) =>
              /\ IsLoaded(sttApiSettings')
              /\ sttApiSettings'.enabled = lastOp'.call.enabled
              /\ sttApiSettings'.provider_id = sttApiSettings.provider_id
              /\ sttApiSettings'.providers = sttApiSettings.providers
              /\ sttApiSettings'.api_keys = sttApiSettings.api_keys
              /\ sttApiSettings'.models = sttApiSettings.models
      ]_vars

(***************************************************************************)
(* C16.  handleProviderSelect(id) with id empty, or with no snapshot in    *)
(* the store, does nothing: no command is issued and the snapshot, the     *)
(* four local fields and the three busy flags stay as they were.           *)
(***************************************************************************)
C16_SelectProviderGuard ==
    [][ ( /\ Invokes({"handleProviderSelect"})
          /\ lastOp'.arg = "" \/ sttApiSettings = Undefined )
        => /\ inflight' = inflight
           /\ issued' = issued
           /\ UNCHANGED <<sttApiSettings, localVars, busyVars>> ]_vars

C16_Witness ==
    /\ lastOp = [op |-> "invoke", handler |-> "handleProviderSelect",
                 arg |-> "custom", call |-> 0]
    /\ sttApiSettings = Undefined
    /\ selectedProviderId = ""
    /\ inflight = {}
    /\ issued = 0

(***************************************************************************)
(* C17.  Only handleProviderSelect changes the active provider: a step     *)
(* that takes the snapshot's provider_id from one id to another is the     *)
(* successful resolution of a handleProviderSelect command.                *)
(***************************************************************************)
C17_OnlySelectChangesProvider ==
    [][ ( /\ Has(sttApiSettings, "provider_id")
          /\ Has(sttApiSettings', "provider_id")
          /\ sttApiSettings'.provider_id # sttApiSettings.provider_id )
        => Resolves({"setSttApiProvider"}, TRUE) ]_vars

(***************************************************************************)
(* C18.  A field edit is bound to the provider selected when it was        *)
(* invoked: the command it issues carries that provider's id, and its      *)
(* successful resolution stores the value for that provider and changes    *)
(* neither the base_url, the api key nor the model stored for any other    *)
(* provider (snapshot and captured snapshot loaded).                       *)
(***************************************************************************)
C18_EditBoundToProvider ==
    [][ /\ (Invokes(FieldHandlers) /\ lastOp'.call # 0) =>
              \E call \in inflight' \ inflight :
                  call.id = lastOp'.call /\ call.providerId = selectedProviderId
        /\ ( /\ Resolves(FieldCmds, TRUE)
              /\ IsLoaded(lastOp'.call.sttApiSettings)
              /\ IsLoaded(sttApiSettings) ) =>
              LET c == lastOp'.call
              IN  /\ Stored(sttApiSettings', c.cmd, c.providerId) = c.value
                  /\ \A B \in ProviderIds(sttApiSettings) \ {c.providerId} :
                        \A cmd \in FieldCmds :
                            Stored(sttApiSettings', cmd, B) = Stored(sttApiSettings, cmd, B)
      ]_vars

(***************************************************************************)
(* C19.  The form and the snapshot converge: with no command in flight,    *)
(* every command so far having succeeded, and the snapshot's provider_id   *)
(* that of a provider of its list, selectedProviderId is the snapshot's    *)
(* provider_id, baseUrl is that provider's base_url, apiKey is its stored  *)
(* key or "" and model is its stored model or "whisper-1".                 *)
(***************************************************************************)
C19_MirrorConverges ==
    ( /\ mounted
      /\ inflight = {}
      /\ IsLoaded(sttApiSettings)
      /\ sttApiSettings.provider_id \in ProviderIds(sttApiSettings) )
    => LET s == sttApiSettings
           i == FindIndex(s.providers, s.provider_id)
       IN  /\ selectedProviderId = s.provider_id
           /\ baseUrl = s.providers[i].base_url
           /\ apiKey = ApiKeyFor(s, s.provider_id)
           /\ model = ModelFor(s, s.provider_id)

(***************************************************************************)
(* C20.  The snapshot agrees with the remote service: with no command in   *)
(* flight and a loaded snapshot, enabled, provider_id and, for every       *)
(* provider of the list, base_url, api key and model are in the snapshot   *)
(* what the command that succeeded last for that item wrote, or, no        *)
(* command having succeeded for it, what the store loaded.                 *)
(***************************************************************************)
C20_SnapshotMatchesPersisted ==
    ( /\ inflight = {}
      /\ IsLoaded(persisted.loaded)
      /\ IsLoaded(sttApiSettings) )
    => LET s == sttApiSettings
           last(item) == {q \in persisted.calls : Item(q) = item}
       IN  /\ s.enabled = IF last([cmd |-> "setSttApiEnabled"]) # {}
                          THEN (CHOOSE q \in last([cmd |-> "setSttApiEnabled"]) : TRUE).enabled
                          ELSE persisted.loaded.enabled
           /\ s.provider_id = IF last([cmd |-> "setSttApiProvider"]) # {}
                              THEN (CHOOSE q \in last([cmd |-> "setSttApiProvider"]) : TRUE).providerId
                              ELSE persisted.loaded.provider_id
           /\ \A id \in ProviderIds(persisted.loaded) : \A cmd \in FieldCmds :
                 Stored(s, cmd, id) =
                     IF last([cmd |-> cmd, providerId |-> id]) # {}
                     THEN (CHOOSE q \in last([cmd |-> cmd, providerId |-> id]) : TRUE).value
                     ELSE Stored(persisted.loaded, cmd, id)

====
